---- MODULE Spec2Model ----
(***************************************************************************)
(* Model of the useForm hook of mantine-form (src/mantine-form/src/        *)
(* use-form.ts).  The two useState cells (values, errors) are the React    *)
(* state; the object useForm returns closes over the values and errors of  *)
(* the render that produced it, so the form object in use is modelled by   *)
(* the snapshot (fvalues, ferrors) taken at the last render.  Functional   *)
(* updaters (setValues(cur => ...), setErrors(cur => ...)) run on the      *)
(* React state, every other read of `values` / `errors` in the hook reads  *)
(* the snapshot.                                                           *)
(***************************************************************************)
EXTENDS Integers, Sequences, FiniteSets, TLC

VARIABLES
    values,         \* useState cell of line 69: field name -> JS value
    errors,         \* useState cell of line 68: field name -> error payload
    fvalues,        \* `values` as captured by the returned form object
    ferrors,        \* `errors` as captured by the returned form object
    initialValues,  \* the initialValues the hook was constructed with
    rules,          \* the rule set (`validate`) the hook was constructed with
    last,           \* the function the last step called
    ret,            \* what that call returned (or that it threw)
    effects         \* what the last submit handler did to its collaborators

vars == <<values, errors, fvalues, ferrors, initialValues, rules,
          last, ret, effects>>

-----------------------------------------------------------------------------
(* Bounds of the model: the longest list a form holds under Spec and       *)
(* SpecStale, and under SpecList.                                          *)

MaxLen == 2
MaxListLen == 4

-----------------------------------------------------------------------------
(* JavaScript values.  A primitive is named by its literal; every value is *)
(* a record of one shape so that any two values can be compared:           *)
(*   kind "prim"  : the primitive sv                                       *)
(*   kind "array" : a plain array holding items                            *)
(*   kind "list"  : an array tagged by formList                            *)
(* An item of an array is an object: a function from its keys to           *)
(* primitives.                                                             *)

Undefined == "undefined"
Null == "null"
Falsy == {"undefined", "null", "false", "''"}

Prim(v) == [kind |-> "prim", sv |-> v, items |-> <<>>]
Arr(a) == [kind |-> "array", sv |-> Undefined, items |-> a]

EmptyObject == [k \in {} |-> Undefined]

\* obj[key], undefined when obj has no such key
Get(obj, key) == IF key \in DOMAIN obj THEN obj[key] ELSE Undefined

\* { ...obj, [key]: val }
Assign(obj, key, val) ==
    [k \in DOMAIN obj \cup {key} |-> IF k = key THEN val ELSE obj[k]]

\* obj with `delete obj[key]` applied
Delete(obj, key) == [k \in DOMAIN obj \ {key} |-> obj[k]]

\* the own enumerable properties an object spread copies from a primitive:
\* the characters of a string under their indices, nothing for the others
SpreadPrim(v) ==
    CASE v = "'a'" -> [k \in {"0"} |-> "'a'"]
      [] v = "'b'" -> [k \in {"0"} |-> "'b'"]
      [] OTHER -> EmptyObject

\* truthiness of a JS value: arrays and objects are truthy
Truthy(x) == IF x.kind = "prim" THEN x.sv \notin Falsy ELSE TRUE

Range(s) == {s[i] : i \in 1..Len(s)}

\* array[index] !== undefined, for a JS (0-based) index
HasIndex(array, index) == index \in 0..(Len(array) - 1)

\* array[index] for an index that exists
At(array, index) == array[index + 1]

\* Array.prototype.splice(start, deleteCount, ...inserted), on a copy
Splice(array, start, deleteCount, inserted) ==
    LET n == Len(array)
        s == IF start < 0 THEN (IF n + start < 0 THEN 0 ELSE n + start)
             ELSE (IF start > n THEN n ELSE start)
        d == IF deleteCount < 0 THEN 0
             ELSE (IF deleteCount > n - s THEN n - s ELSE deleteCount)
    IN  SubSeq(array, 1, s) \o inserted \o SubSeq(array, s + d + 1, n)

-----------------------------------------------------------------------------
(* Collaborators of the hook that live in other files of the package       *)
(* (form-list, filter-errors, validate-values, get-input-on-change).       *)

\* formList(array): the array, tagged as a list value
formList(array) == [kind |-> "list", sv |-> Undefined, items |-> array]

\* isFormList(value): value is an array carrying the tag
isFormList(value) == value.kind = "list"

\* values[field]; undefined when the store has no such key
Field(store, field) ==
    IF field \in DOMAIN store THEN store[field] ELSE Prim(Undefined)

\* filterErrors(errors): the keys holding a falsy error are dropped
filterErrors(errs) == [k \in {x \in DOMAIN errs : Truthy(errs[x])} |-> errs[k]]

\* A rule is an opaque pure function; the ones used here are named:
\*   required : (value) => (value ? null : 'required')
\*   isA      : (value) => (value === 'a' ? null : 'not a')
ApplyRule(fn, value, allValues) ==
    CASE fn = "required" -> IF Truthy(value) THEN Null ELSE "'required'"
      [] fn = "isA" -> IF value = Prim("'a'") THEN Null ELSE "'not a'"
      [] OTHER -> Null

ScalarRule(fn) == [kind |-> "scalar", fn |-> fn, sub |-> EmptyObject]
ListRule(sub) == [kind |-> "list", fn |-> "", sub |-> sub]

\* the error object of one list item: the subfields whose rule reports an
\* error, each with that error
ItemErrors(sub, item, allValues) ==
    LET err(s) == ApplyRule(sub[s], Prim(Get(item, s)), allValues)
    IN  [s \in {x \in DOMAIN sub : err(x) \notin Falsy} |-> err(s)]

\* what the rule of one field reports for the current values
FieldError(rule, value, allValues) ==
    IF rule.kind = "list"
    THEN IF isFormList(value)
         THEN Arr([i \in 1..Len(value.items) |->
                      ItemErrors(rule.sub, value.items[i], allValues)])
         ELSE Prim(Undefined)
    ELSE Prim(ApplyRule(rule.fn, value, allValues))

\* a reported error that is an error: a truthy payload, or a list of item
\* errors of which one is not empty
IsError(e) ==
    IF e.kind = "prim" THEN Truthy(e)
    ELSE \E i \in 1..Len(e.items) : DOMAIN e.items[i] # {}

\* validateValues(rules, values) = { errors, hasErrors }
validateValues(ruleSet, allValues) ==
    LET raw(f) == FieldError(ruleSet[f], Field(allValues, f), allValues)
        errs == [f \in {x \in DOMAIN ruleSet : IsError(raw(x))} |-> raw(f)]
    IN  [errors |-> errs, hasErrors |-> DOMAIN errs # {}]

\* validateFieldValue(field, rules, values) = { valid, error }
validateFieldValue(field, ruleSet, allValues) ==
    IF field \notin DOMAIN ruleSet
    THEN [valid |-> TRUE, error |-> Prim(Null)]
    ELSE LET e == FieldError(ruleSet[field], Field(allValues, field), allValues)
         IN  IF IsError(e) THEN [valid |-> FALSE, error |-> e]
             ELSE [valid |-> TRUE, error |-> Prim(Null)]

\* What a change handler is called with: a raw value, or an event-like
\* object with a target (target.type, target.checked, target.value).
RawInput(v) ==
    [isEvent |-> FALSE, type |-> "", checked |-> Undefined,
     value |-> Undefined, raw |-> v]
EventInput(type, checked, value) ==
    [isEvent |-> TRUE, type |-> type, checked |-> checked,
     value |-> value, raw |-> Undefined]

\* getInputOnChange(setValue)(input): the value handed to setValue
InputValue(input) ==
    IF input.isEvent
    THEN IF input.type = "checkbox" THEN input.checked ELSE input.value
    ELSE input.raw

-----------------------------------------------------------------------------
(* The functions of the hook, as transitions of the two state cells.       *)

\* line 71
clearErrors == errors' = EmptyObject

\* lines 72-73
setFieldError(field, error) == errors' = Assign(errors, field, error)

\* lines 75-80
clearFieldError(field) == errors' = Delete(errors, field)

\* setFieldValue written without the call of clearFieldError
setFieldValue_keepError(field, value) ==
    /\ values' = Assign(values, field, value)
    /\ UNCHANGED errors

\* setFieldValue written without the functional updater: it spreads the
\* values of the form object instead of the current state
setFieldValue_snapshot(field, value) ==
    /\ values' = Assign(fvalues, field, value)
    /\ clearFieldError(field)

\* lines 82-85
setFieldValue(field, value) ==
    /\ values' = Assign(values, field, value)
    /\ clearFieldError(field)

\* setListItem written without the check that an item exists at index: the
\* assignment extends the array
setListItem_unchecked(field, index, value) ==
    LET list == Field(fvalues, field)
    IN  IF isFormList(list) /\ index >= 0
        THEN LET cloned ==
                     IF HasIndex(list.items, index)
                     THEN [list.items EXCEPT ![index + 1] = value]
                     ELSE list.items \o <<value>>
             IN  setFieldValue(field, formList(cloned))
        ELSE UNCHANGED <<values, errors>>

\* lines 87-98
setListItem(field, index, value) ==
    LET list == Field(fvalues, field)
    IN  IF isFormList(list) /\ HasIndex(list.items, index)
        THEN LET cloned == [list.items EXCEPT ![index + 1] = value]
             IN  setFieldValue(field, formList(cloned))
        ELSE UNCHANGED <<values, errors>>

\* the `indices` argument of removeListItem: a number or an array of them
OneIndex(n) == [isArray |-> FALSE, ns |-> <<n>>]
ManyIndices(ns) == [isArray |-> TRUE, ns |-> ns]

\* lines 107-109: the filter callback of removeListItem
KeepsIndex(indices, index) ==
    IF indices.isArray
    THEN index \notin Range(indices.ns)
    ELSE indices.ns[1] # index

\* list.filter((_, index) => KeepsIndex(indices, index)), from index on
RECURSIVE FilterKept(_, _, _)
FilterKept(array, indices, index) ==
    IF index >= Len(array) THEN <<>>
    ELSE (IF KeepsIndex(indices, index) THEN <<At(array, index)>> ELSE <<>>)
         \o FilterKept(array, indices, index + 1)

\* removeListItem written to take an array of indices for its first element
removeListItem_firstOnly(field, indices) ==
    LET list == Field(fvalues, field)
        first == [isArray |-> FALSE, ns |-> indices.ns]
    IN  IF isFormList(list)
        THEN setFieldValue(field,
                 formList(IF indices.ns = <<>> THEN list.items
                          ELSE FilterKept(list.items, first, 0)))
        ELSE UNCHANGED <<values, errors>>

\* removeListItem written with the index check of the other list operations:
\* it does nothing unless one of the indices references an item
removeListItem_checked(field, indices) ==
    LET list == Field(fvalues, field)
        removed == IF indices.isArray THEN Range(indices.ns)
                   ELSE {indices.ns[1]}
    IN  IF isFormList(list) /\ (\E i \in removed : HasIndex(list.items, i))
        THEN setFieldValue(field, formList(FilterKept(list.items, indices, 0)))
        ELSE UNCHANGED <<values, errors>>

\* lines 100-113
removeListItem(field, indices) ==
    LET list == Field(fvalues, field)
    IN  IF isFormList(list)
        THEN setFieldValue(field, formList(FilterKept(list.items, indices, 0)))
        ELSE UNCHANGED <<values, errors>>

\* addListItem written without re-tagging the new array
addListItem_untagged(field, payload) ==
    LET list == Field(fvalues, field)
    IN  IF isFormList(list)
        THEN setFieldValue(field, Arr(list.items \o <<payload>>))
        ELSE UNCHANGED <<values, errors>>

\* addListItem written to put the payload first
addListItem_prepend(field, payload) ==
    LET list == Field(fvalues, field)
    IN  IF isFormList(list)
        THEN setFieldValue(field, formList(<<payload>> \o list.items))
        ELSE UNCHANGED <<values, errors>>

\* lines 115-121
addListItem(field, payload) ==
    LET list == Field(fvalues, field)
    IN  IF isFormList(list)
        THEN setFieldValue(field, formList(list.items \o <<payload>>))
        ELSE UNCHANGED <<values, errors>>

\* reorderListItem written to insert before it removes, so that `to` is a
\* position of the original sequence
reorderListItem_insertFirst(field, from, to) ==
    LET list == Field(fvalues, field)
    IN  IF isFormList(list) /\ HasIndex(list.items, from)
                            /\ HasIndex(list.items, to)
        THEN LET item == At(list.items, from)
                 inserted == Splice(list.items, to, 0, <<item>>)
                 cloned == Splice(inserted,
                                  IF from < to THEN from ELSE from + 1, 1, <<>>)
             IN  setFieldValue(field, formList(cloned))
        ELSE UNCHANGED <<values, errors>>

\* lines 123-137
reorderListItem(field, from, to) ==
    LET list == Field(fvalues, field)
    IN  IF isFormList(list) /\ HasIndex(list.items, from)
                            /\ HasIndex(list.items, to)
        THEN LET item == At(list.items, from)
                 removed == Splice(list.items, from, 1, <<>>)
                 cloned == Splice(removed, to, 0, <<item>>)
             IN  setFieldValue(field, formList(cloned))
        ELSE UNCHANGED <<values, errors>>

\* lines 139-143: the results validate() computes and returns
validateResults == validateValues(rules, fvalues)

\* validate written to merge its errors into the error store
validate_merge ==
    /\ errors' = [k \in DOMAIN errors \cup DOMAIN validateResults.errors |->
                     IF k \in DOMAIN validateResults.errors
                     THEN validateResults.errors[k] ELSE errors[k]]
    /\ UNCHANGED values

validate ==
    /\ errors' = validateResults.errors
    /\ UNCHANGED values

\* lines 145-149
validateFieldResults(field) == validateFieldValue(field, rules, fvalues)

\* validateField written to store the outcome as the whole error store
validateField_replace(field) ==
    /\ errors' = IF validateFieldResults(field).valid THEN EmptyObject
                 ELSE Assign(EmptyObject, field,
                             validateFieldResults(field).error)
    /\ UNCHANGED values

validateField(field) ==
    /\ IF validateFieldResults(field).valid
       THEN clearFieldError(field)
       ELSE setFieldError(field, validateFieldResults(field).error)
    /\ UNCHANGED values

\* reset written without the call of clearErrors
reset_valuesOnly ==
    /\ values' = initialValues
    /\ UNCHANGED errors

\* lines 158-161
reset ==
    /\ values' = initialValues
    /\ clearErrors

-----------------------------------------------------------------------------
(* What a call returns, and what the submit handler does to the event and  *)
(* to the caller's callback.                                               *)

Ret(kind) ==
    [kind |-> kind, value |-> Prim(Undefined), error |-> Prim(Undefined),
     errors |-> EmptyObject, flag |-> FALSE]

Void == Ret("void")
ReturnsUndefined == Ret("undefined")
ThrowsTypeError == Ret("TypeError")

NoEffects ==
    [log |-> <<>>, results |-> [errors |-> EmptyObject, hasErrors |-> FALSE],
     validated |-> EmptyObject, cbValues |-> EmptyObject]

\* the submit handler written to call handleSubmit whatever validate reports
onSubmitEffects_always ==
    [log |-> <<"preventDefault", "validate", "handleSubmit">>,
     results |-> validateResults,
     validated |-> fvalues,
     cbValues |-> fvalues]

\* the submit handler written to hand the current state to handleSubmit
onSubmitEffects_current ==
    [log |-> <<"preventDefault", "validate">>
             \o (IF ~validateResults.hasErrors
                 THEN <<"handleSubmit">> ELSE <<>>),
     results |-> validateResults,
     validated |-> fvalues,
     cbValues |-> IF ~validateResults.hasErrors THEN values ELSE EmptyObject]

\* lines 151-156: the handler onSubmit(handleSubmit) returns, called with an
\* event: what it calls, in order, and the values it hands to handleSubmit
onSubmitEffects ==
    LET results == validateResults
    IN  [log |-> <<"preventDefault", "validate">>
                 \o (IF ~results.hasErrors THEN <<"handleSubmit">> ELSE <<>>),
         results |-> results,
         validated |-> fvalues,
         cbValues |-> IF ~results.hasErrors THEN fvalues ELSE EmptyObject]

\* the same handler; called without an event, event.preventDefault() throws
\* before anything else is done
onSubmit(hasEvent) ==
    IF hasEvent
    THEN /\ validate
         /\ effects' = onSubmitEffects
         /\ ret' = Void
    ELSE /\ UNCHANGED <<values, errors>>
         /\ effects' = NoEffects
         /\ ret' = ThrowsTypeError

\* errors[field]?.[index]?.[listField] of lines 204-205
ListItemError(errs, field, index, listField) ==
    LET e == Field(errs, field)
    IN  IF e.kind # "prim" /\ HasIndex(e.items, index)
        THEN Get(At(e.items, index), listField)
        ELSE Undefined

\* lines 183-212: what getListInputProps returns.  With a tagged list and no
\* item at index, listValue is undefined and listValue[listField] throws.
getListInputProps(field, index, listField, type, withError) ==
    LET list == Field(fvalues, field)
    IN  IF isFormList(list)
        THEN IF HasIndex(list.items, index)
             THEN LET listValue == At(list.items, index)
                      value == Get(listValue, listField)
                      error == ListItemError(ferrors, field, index, listField)
                  IN  [kind |-> "props",
                       value |-> Prim(value),
                       error |-> IF withError /\ error \notin Falsy
                                 THEN Prim(error) ELSE Prim(Undefined),
                       errors |-> EmptyObject,
                       flag |-> (type = "checkbox")]
             ELSE ThrowsTypeError
        ELSE ReturnsUndefined

\* lines 199-201: the item the change handler of that descriptor hands to
\* setListItem; `value` is the subfield's value the descriptor was built with
onChangeItem(field, index, listField, val) ==
    LET listValue == At(Field(fvalues, field).items, index)
        value == Get(listValue, listField)
    IN  Assign(SpreadPrim(value), listField, val)

\* the change handler itself
onChange(field, index, listField, input) ==
    setListItem(field, index,
                onChangeItem(field, index, listField, InputValue(input)))

-----------------------------------------------------------------------------------------------------------------------------------------------------
(* Steps: one call made through the form object in use.  After the call    *)
(* React either re-renders before the next call is made (the next call     *)
(* goes through a form object built from the new state) or does not (the   *)
(* next call is made by the same event handler, through the same object).  *)

Rerender(render) ==
    /\ fvalues' = IF render THEN values' ELSE fvalues
    /\ ferrors' = IF render THEN errors' ELSE ferrors

Done(op, render) ==
    /\ last' = op
    /\ Rerender(render)
    /\ UNCHANGED <<initialValues, rules>>

Returns(result) ==
    /\ ret' = result
    /\ effects' = NoEffects

\* the array the store holds at field (empty for a primitive)
ListAt(store, field) == Field(store, field).items

SetFieldValueCall(field, value, render) ==
    /\ setFieldValue(field, value)
    /\ Returns(Void)
    /\ Done("setFieldValue", render)

SetFieldErrorCall(field, error, render) ==
    /\ setFieldError(field, error)
    /\ UNCHANGED values
    /\ Returns(Void)
    /\ Done("setFieldError", render)

ClearFieldErrorCall(field, render) ==
    /\ clearFieldError(field)
    /\ UNCHANGED values
    /\ Returns(Void)
    /\ Done("clearFieldError", render)

ClearErrorsCall(render) ==
    /\ clearErrors
    /\ UNCHANGED values
    /\ Returns(Void)
    /\ Done("clearErrors", render)

\* line 219: setErrors is the state cell's own setter
SetErrorsCall(newErrors, render) ==
    /\ errors' = newErrors
    /\ UNCHANGED values
    /\ Returns(Void)
    /\ Done("setErrors", render)

\* line 216: setValues is the state cell's own setter
SetValuesCall(newValues, render) ==
    /\ values' = newValues
    /\ UNCHANGED errors
    /\ Returns(Void)
    /\ Done("setValues", render)

SetListItemCall(field, index, value, render) ==
    /\ setListItem(field, index, value)
    /\ Returns(Void)
    /\ Done("setListItem", render)

RemoveListItemCall(field, indices, render) ==
    /\ removeListItem(field, indices)
    /\ Returns(Void)
    /\ Done("removeListItem", render)

AddListItemCall(field, payload, render) ==
    /\ addListItem(field, payload)
    /\ Returns(Void)
    /\ Done("addListItem", render)

ReorderListItemCall(field, from, to, render) ==
    /\ reorderListItem(field, from, to)
    /\ Returns(Void)
    /\ Done("reorderListItem", render)

ValidateCall(render) ==
    /\ validate
    /\ ret' = [Ret("validation") EXCEPT
                   !.errors = validateResults.errors,
                   !.flag = validateResults.hasErrors]
    /\ effects' = NoEffects
    /\ Done("validate", render)

ValidateFieldCall(field, render) ==
    /\ validateField(field)
    /\ ret' = [Ret("fieldValidation") EXCEPT
                   !.error = validateFieldResults(field).error,
                   !.flag = validateFieldResults(field).valid]
    /\ effects' = NoEffects
    /\ Done("validateField", render)

\* the handler returned by onSubmit(handleSubmit) is called
SubmitCall(hasEvent, render) ==
    /\ onSubmit(hasEvent)
    /\ Done("onSubmit", render)

ResetCall(render) ==
    /\ reset
    /\ Returns(Void)
    /\ Done("reset", render)

GetListInputPropsCall(field, index, listField, type, withError, render) ==
    /\ UNCHANGED <<values, errors>>
    /\ Returns(getListInputProps(field, index, listField, type, withError))
    /\ Done("getListInputProps", render)

\* the change handler of the descriptor getListInputProps(field, index,
\* listField) returns is called; there is one when a descriptor is returned
ListInputChangeCall(field, index, listField, input, render) ==
    /\ getListInputProps(field, index, listField, "input", TRUE).kind = "props"
    /\ onChange(field, index, listField, input)
    /\ Returns(Void)
    /\ Done("onChange", render)

\* useForm({ initialValues, initialErrors, validate }), lines 63-69
UseForm(config) ==
    /\ values = config.initialValues
    /\ errors = filterErrors(config.initialErrors)
    /\ fvalues = values
    /\ ferrors = errors
    /\ initialValues = config.initialValues
    /\ rules = config.validate
    /\ last = "useForm"
    /\ ret = Void
    /\ effects = NoEffects

\* The steps, with their arguments drawn from a universe U.
SetFieldValue(U) ==
    \E field \in U.fields, value \in U.values, render \in U.renders :
        SetFieldValueCall(field, value, render)

SetFieldError(U) ==
    \E field \in U.fields, error \in U.errors, render \in U.renders :
        SetFieldErrorCall(field, error, render)

ClearFieldError(U) ==
    \E field \in U.fields, render \in U.renders :
        ClearFieldErrorCall(field, render)

ClearErrors(U) == \E render \in U.renders : ClearErrorsCall(render)

SetErrors(U) ==
    \E newErrors \in U.errorObjects, render \in U.renders :
        SetErrorsCall(newErrors, render)

SetValues(U) ==
    \E newValues \in U.valueObjects, render \in U.renders :
        SetValuesCall(newValues, render)

SetListItem(U) ==
    \E field \in U.fields, index \in U.indices, value \in U.items,
       render \in U.renders :
        SetListItemCall(field, index, value, render)

RemoveListItem(U) ==
    \E field \in U.fields, indices \in U.removals, render \in U.renders :
        RemoveListItemCall(field, indices, render)

\* the model stops adding to a list that holds U.maxLen items
AddListItem(U) ==
    \E field \in U.fields, payload \in U.items, render \in U.renders :
        /\ Len(ListAt(fvalues, field)) < U.maxLen
        /\ AddListItemCall(field, payload, render)

ReorderListItem(U) ==
    \E field \in U.fields, from \in U.indices, to \in U.indices,
       render \in U.renders :
        ReorderListItemCall(field, from, to, render)

Validate(U) == \E render \in U.renders : ValidateCall(render)

ValidateField(U) ==
    \E field \in U.fields, render \in U.renders :
        ValidateFieldCall(field, render)

Submit(U) ==
    \E hasEvent \in U.events, render \in U.renders :
        SubmitCall(hasEvent, render)

Reset(U) == \E render \in U.renders : ResetCall(render)

GetListInputProps(U) ==
    \E field \in U.fields, index \in U.indices, listField \in U.listFields,
       options \in U.options, render \in U.renders :
        GetListInputPropsCall(field, index, listField, options.type,
                              options.withError, render)

ListInputChange(U) ==
    \E field \in U.fields, index \in U.indices, listField \in U.listFields,
       input \in U.inputs, render \in U.renders :
        ListInputChangeCall(field, index, listField, input, render)

-----------------------------------------------------------------------------
(* The forms and the arguments the model is run with.                      *)

ItemA == [title |-> "'a'", done |-> "true"]
ItemB == [title |-> "''", done |-> "false"]
ItemC == [title |-> "'b'", done |-> "true"]
ItemD == [title |-> "'b'", done |-> "false"]

NameAndTodosRules ==
    [name |-> ScalarRule("required"),
     todos |-> ListRule([title |-> "required"])]

\* Spec: every operation, each call followed by a render.
Configs ==
    { [initialValues |-> [name |-> Prim("''"), todos |-> formList(<<ItemA>>)],
       initialErrors |-> [name |-> Prim("''")],
       validate |-> NameAndTodosRules],
      [initialValues |-> [todos |-> Arr(<<ItemB>>)],
       initialErrors |-> [todos |-> Prim("'taken'")],
       validate |-> EmptyObject] }

Universe ==
    [fields |-> {"name", "todos"},
     values |-> {Prim("'a'")},
     errors |-> {Prim(Null)},
     errorObjects |-> {[name |-> Prim("'taken'")]},
     valueObjects |-> {[todos |-> formList(<<ItemB>>)]},
     items |-> {ItemB},
     indices |-> -1..MaxLen,
     removals |-> {OneIndex(i) : i \in -1..MaxLen}
                  \cup {ManyIndices(<<0, 1>>)},
     listFields |-> {"title", "done"},
     inputs |-> {EventInput("checkbox", "true", "'on'")},
     options |-> {[type |-> "input", withError |-> TRUE],
                  [type |-> "checkbox", withError |-> FALSE]},
     events |-> BOOLEAN,
     renders |-> {TRUE},
     maxLen |-> MaxLen]

Init == \E config \in Configs : UseForm(config)

Next ==
    \/ SetFieldValue(Universe)
    \/ SetFieldError(Universe)
    \/ ClearFieldError(Universe)
    \/ ClearErrors(Universe)
    \/ SetErrors(Universe)
    \/ SetValues(Universe)
    \/ SetListItem(Universe)
    \/ RemoveListItem(Universe)
    \/ AddListItem(Universe)
    \/ ReorderListItem(Universe)
    \/ Validate(Universe)
    \/ ValidateField(Universe)
    \/ Submit(Universe)
    \/ Reset(Universe)
    \/ GetListInputProps(Universe)
    \/ ListInputChange(Universe)

Spec == Init /\ [][Next]_vars

\* SpecList: the list operations on longer lists, each call followed by a
\* render.
ListConfigs ==
    { [initialValues |-> [name |-> Prim("'a'"),
                          todos |-> formList(<<ItemA, ItemB, ItemC, ItemD>>)],
       initialErrors |-> [todos |-> Prim("'too many'")],
       validate |-> EmptyObject],
      [initialValues |-> [name |-> Arr(<<ItemA, ItemB>>),
                          todos |-> formList(<<>>)],
       initialErrors |-> [name |-> Prim("'taken'"),
                          todos |-> Prim("'empty'")],
       validate |-> EmptyObject],
      [initialValues |-> [todos |-> formList(<<ItemB>>)],
       initialErrors |-> [name |-> Prim("'missing'")],
       validate |-> EmptyObject] }

ListUniverse ==
    [fields |-> {"name", "todos"},
     values |-> {},
     errors |-> {Prim("'too many'")},
     errorObjects |-> {},
     valueObjects |-> {},
     items |-> {ItemD},
     indices |-> -1..MaxListLen,
     removals |-> {OneIndex(i) : i \in -1..MaxListLen}
                  \cup {ManyIndices(<<0, 2>>), ManyIndices(<<1, 1, MaxListLen>>),
                        ManyIndices(<<>>)},
     listFields |-> {},
     inputs |-> {},
     options |-> {},
     events |-> {},
     renders |-> {TRUE},
     maxLen |-> MaxListLen]

InitList == \E config \in ListConfigs : UseForm(config)

NextList ==
    \/ SetListItem(ListUniverse)
    \/ RemoveListItem(ListUniverse)
    \/ AddListItem(ListUniverse)
    \/ ReorderListItem(ListUniverse)

SpecList == InitList /\ [][NextList]_vars

\* SpecStale: a short form whose event handlers make several calls through
\* the same form object before React re-renders.
StaleConfigs ==
    { [initialValues |-> [name |-> Prim("''"), todos |-> formList(<<>>)],
       initialErrors |-> [todos |-> Prim("'empty'")],
       validate |-> NameAndTodosRules] }

StaleUniverse ==
    [fields |-> {"name", "todos"},
     values |-> {Prim("'a'")},
     errors |-> {Prim("'taken'")},
     errorObjects |-> {},
     valueObjects |-> {},
     items |-> {ItemB},
     indices |-> -1..MaxLen,
     removals |-> {OneIndex(i) : i \in 0..MaxLen},
     listFields |-> {},
     inputs |-> {},
     options |-> {},
     events |-> {TRUE},
     renders |-> BOOLEAN,
     maxLen |-> MaxLen]

InitStale == \E config \in StaleConfigs : UseForm(config)

NextStale ==
    \/ SetFieldValue(StaleUniverse)
    \/ SetFieldError(StaleUniverse)
    \/ AddListItem(StaleUniverse)
    \/ RemoveListItem(StaleUniverse)
    \/ Validate(StaleUniverse)
    \/ ValidateField(StaleUniverse)
    \/ Submit(StaleUniverse)
    \/ Reset(StaleUniverse)

SpecStale == InitStale /\ [][NextStale]_vars

-----------------------------------------------------------------------------
(* Properties.                                                             *)

\* C1: for every field f and value v, setFieldValue(f, v) yields a state in
\* which values[f] = v, the error store has no key f, and the value and the
\* error of every other field are what they were before the call (also when
\* the call is made through a form object older than the state).
C1_SetFieldValueFrame ==
    [][\A field \in StaleUniverse.fields, value \in StaleUniverse.values,
          render \in BOOLEAN :
          SetFieldValueCall(field, value, render) =>
              /\ field \in DOMAIN values'
              /\ values'[field] = value
              /\ field \notin DOMAIN errors'
              /\ Delete(values', field) = Delete(values, field)
              /\ Delete(errors', field) = Delete(errors, field)]_vars

\* C1 witness: setFieldValue("name", 'a') was called through a form object
\* older than the state: name holds 'a' and has no error, while the list
\* added to todos since the render and the error set on todos are still there
C1_Witness ==
    /\ last = "setFieldValue"
    /\ Field(values, "name") = Prim("'a'")
    /\ "name" \notin DOMAIN errors
    /\ "name" \in DOMAIN ferrors
    /\ Field(values, "todos") = formList(<<ItemB>>)
    /\ Field(fvalues, "todos") = formList(<<>>)
    /\ Field(errors, "todos") = Prim("'taken'")

\* C2: no key of the error store ever holds a falsy error.
C2_ErrorStoreInvariant == \A k \in DOMAIN errors : Truthy(errors[k])

\* the item the change handler of C3 is expected to store: the item at index
\* with listField replaced
MergedItem(item, listField, val) ==
    [k \in DOMAIN item \cup {listField} |->
        IF k = listField THEN val ELSE item[k]]

\* C3: on a list field with an item at index, the change handler returned by
\* getListInputProps(field, index, listField), called with a value, yields a
\* list whose item at index has listField equal to that value and every
\* other subfield as before, all other items unchanged.
C3_ListInputChangeMerges ==
    [][\A field \in Universe.fields, index \in Universe.indices,
          listField \in Universe.listFields, input \in Universe.inputs,
          render \in BOOLEAN :
          ListInputChangeCall(field, index, listField, input, render) =>
              /\ isFormList(Field(values', field))
              /\ ListAt(values', field) =
                     [ListAt(fvalues, field) EXCEPT ![index + 1] =
                         MergedItem(@, listField, InputValue(input))]]_vars

\* the indices of the removal argument
RemovalSet(indices) ==
    IF indices.isArray THEN Range(indices.ns) ELSE {indices.ns[1]}

\* the form object in use holds no list at field
NoListAt(field) == ~isFormList(Field(fvalues, field))

\* the form object in use holds no list, or no item at index, at field
NoItemAt(field, index) ==
    NoListAt(field) \/ ~HasIndex(ListAt(fvalues, field), index)

\* C4: a list operation called on a field that holds no list, or with an
\* index (or indices) at which the list has no item, leaves the values and
\* the errors unchanged.
C4_NoopMutation ==
    [][/\ \A field \in ListUniverse.fields, index \in ListUniverse.indices,
             value \in ListUniverse.items, render \in BOOLEAN :
             SetListItemCall(field, index, value, render)
                 /\ NoItemAt(field, index) => UNCHANGED <<values, errors>>
       /\ \A field \in ListUniverse.fields, payload \in ListUniverse.items,
             render \in BOOLEAN :
             AddListItemCall(field, payload, render)
                 /\ NoListAt(field) => UNCHANGED <<values, errors>>
       /\ \A field \in ListUniverse.fields,
             indices \in ListUniverse.removals, render \in BOOLEAN :
             RemoveListItemCall(field, indices, render)
                 /\ (\A i \in RemovalSet(indices) : NoItemAt(field, i))
                 => UNCHANGED <<values, errors>>
       /\ \A field \in ListUniverse.fields, from \in ListUniverse.indices,
             to \in ListUniverse.indices, render \in BOOLEAN :
             ReorderListItemCall(field, from, to, render)
                 /\ (NoItemAt(field, from) \/ NoItemAt(field, to))
                 => UNCHANGED <<values, errors>>]_vars

\* C5: getListInputProps never throws; called on a field that holds no list,
\* or with an index at which the list has no item, it returns undefined and
\* leaves the state unchanged.
C5_NoDescriptorNoThrow ==
    [][\A field \in Universe.fields, index \in Universe.indices,
          listField \in Universe.listFields, options \in Universe.options,
          render \in BOOLEAN :
          GetListInputPropsCall(field, index, listField, options.type,
                                options.withError, render) =>
              /\ ret'.kind # "TypeError"
              /\ NoItemAt(field, index) => ret'.kind = "undefined"
              /\ UNCHANGED <<values, errors>>]_vars

\* C6: the submit handler, called with an event, first calls the event's
\* preventDefault, then validates; it calls handleSubmit if and only if the
\* validation reports no errors, and when it reports errors the error store
\* holds the validation's errors.
C6_Submission ==
    (last = "onSubmit" /\ ret.kind = "void") =>
        /\ Len(effects.log) >= 2
        /\ effects.log[1] = "preventDefault"
        /\ effects.log[2] = "validate"
        /\ effects.results = validateValues(rules, effects.validated)
        /\ ("handleSubmit" \in Range(effects.log))
               <=> ~effects.results.hasErrors
        /\ effects.results.hasErrors => errors = effects.results.errors

\* C6 witness: a submit of a form with an empty name: the handler stopped
\* after validating and the error store holds the error of name
C6_Witness ==
    /\ last = "onSubmit"
    /\ effects.log = <<"preventDefault", "validate">>
    /\ effects.results.hasErrors
    /\ Field(effects.validated, "name") = Prim("''")
    /\ Field(errors, "name") = Prim("'required'")

\* a sequence without its element at (0-based) index
WithoutIndex(seq, index) ==
    [j \in 1..(Len(seq) - 1) |-> IF j <= index THEN seq[j] ELSE seq[j + 1]]

\* how many times x occurs in seq
Count(seq, x) == Cardinality({j \in 1..Len(seq) : seq[j] = x})

\* C7: on a list with items at from and to, reorderListItem(field, {from,
\* to}) yields a list of the same length, a permutation of the original, in
\* which the item that was at from is at to and the other items keep their
\* order; {from: 0, to: 2} on [A, B, C, D] yields [B, C, A, D].
C7_ReorderMoves ==
    [][last' = "reorderListItem" =>
       \A field \in ListUniverse.fields, from \in ListUniverse.indices,
          to \in ListUniverse.indices, render \in ListUniverse.renders :
          (/\ ~NoItemAt(field, from)
           /\ ~NoItemAt(field, to)
           /\ ReorderListItemCall(field, from, to, render)) =>
              LET old == ListAt(fvalues, field)
                  new == ListAt(values', field)
              IN  /\ isFormList(Field(values', field))
                  /\ Len(new) = Len(old)
                  /\ \A x \in Range(old) \cup Range(new) :
                         Count(new, x) = Count(old, x)
                  /\ At(new, to) = At(old, from)
                  /\ WithoutIndex(new, to) = WithoutIndex(old, from)
                  /\ (old = <<ItemA, ItemB, ItemC, ItemD>>
                          /\ from = 0 /\ to = 2)
                         => new = <<ItemB, ItemC, ItemA, ItemD>>]_vars

\* C7 witness: reorderListItem has produced [B, C, A, D]
C7_Witness ==
    /\ last = "reorderListItem"
    /\ Field(values, "todos") = formList(<<ItemB, ItemC, ItemA, ItemD>>)

\* the (0-based) indices of seq that are not in removed, and the j-th of them
KeptIndices(seq, removed) == {i \in 0..(Len(seq) - 1) : i \notin removed}
NthKept(seq, removed, j) ==
    CHOOSE i \in KeptIndices(seq, removed) :
        Cardinality({k \in KeptIndices(seq, removed) : k < i}) = j - 1

\* C8: removeListItem(field, indices) on a list yields the items whose index
\* is not among indices, in their order; the length drops by the number of
\* distinct indices among them at which the list has an item.
C8_RemoveKeepsOthers ==
    [][last' = "removeListItem" =>
       \A field \in ListUniverse.fields, indices \in ListUniverse.removals,
          render \in ListUniverse.renders :
          (~NoListAt(field) /\ RemoveListItemCall(field, indices, render)) =>
              LET old == ListAt(fvalues, field)
                  new == ListAt(values', field)
                  removed == RemovalSet(indices)
              IN  /\ isFormList(Field(values', field))
                  /\ Len(new) = Len(old) - Cardinality(
                         {i \in removed : HasIndex(old, i)})
                  /\ \A j \in 1..Len(new) :
                         new[j] = At(old, NthKept(old, removed, j))]_vars

\* C8 witness: removeListItem has left [B, D] of the four items
C8_Witness ==
    /\ last = "removeListItem"
    /\ Field(values, "todos") = formList(<<ItemB, ItemD>>)
    /\ "todos" \notin DOMAIN errors

\* C9: addListItem(field, payload) on a list yields a list one longer, whose
\* last item is payload and whose other items are the original ones in order.
C9_AddAppends ==
    [][last' = "addListItem" =>
       \A field \in ListUniverse.fields, payload \in ListUniverse.items,
          render \in ListUniverse.renders :
          (~NoListAt(field) /\ AddListItemCall(field, payload, render)) =>
              LET old == ListAt(fvalues, field)
                  new == ListAt(values', field)
              IN  /\ isFormList(Field(values', field))
                  /\ Len(new) = Len(old) + 1
                  /\ new[Len(new)] = payload
                  /\ SubSeq(new, 1, Len(old)) = old]_vars

\* C9 witness: addListItem has appended D to [A, B, C]
C9_Witness ==
    /\ last = "addListItem"
    /\ Field(values, "todos") = formList(<<ItemA, ItemB, ItemC, ItemD>>)

\* C10: setListItem(field, index, value) on a list replaces the item at
\* index when there is one, the length and the other items unchanged; when
\* there is none the list is not extended and no item is created.
C10_SetListItemReplaces ==
    [][last' = "setListItem" =>
       \A field \in ListUniverse.fields, index \in ListUniverse.indices,
          value \in ListUniverse.items, render \in BOOLEAN :
          SetListItemCall(field, index, value, render) /\ ~NoListAt(field) =>
              LET old == ListAt(fvalues, field)
                  new == ListAt(values', field)
              IN  IF HasIndex(old, index)
                  THEN /\ isFormList(Field(values', field))
                       /\ Len(new) = Len(old)
                       /\ At(new, index) = value
                       /\ \A j \in 0..(Len(old) - 1) :
                              j # index => At(new, j) = At(old, j)
                  ELSE values' = values]_vars

\* C10 witness: setListItem has replaced the item at index 1 of [A, B, C, D]
C10_Witness ==
    /\ last = "setListItem"
    /\ Field(values, "todos") = formList(<<ItemA, ItemD, ItemC, ItemD>>)

\* a sequence without its last element
Front(seq) == SubSeq(seq, 1, Len(seq) - 1)

\* C11: after addListItem(field, payload) on a list L the state holds L with
\* the payload appended, and the form object holds that list (the state was
\* re-read) or still holds L (it was not); removeListItem(field, Len(L))
\* called then yields a list content-equal to L, in both cases.
C11_AddRemoveRoundTrip ==
    [][(last = "addListItem" /\ last' = "removeListItem") =>
       \A field \in StaleUniverse.fields, render \in StaleUniverse.renders :
          LET added == ListAt(values, field)
              held == ListAt(fvalues, field)
          IN  (/\ isFormList(Field(values, field))
               /\ ~NoListAt(field)
               /\ added # <<>>
               /\ held \in {added, Front(added)}
               /\ RemoveListItemCall(field, OneIndex(Len(added) - 1), render))
              => /\ isFormList(Field(values', field))
                 /\ ListAt(values', field) = Front(added)]_vars

\* C11 witness: the round trip made through one form object, which still
\* holds the list [B] and the error of before the two calls: the state holds
\* [B] again
C11_Witness ==
    /\ last = "removeListItem"
    /\ Field(values, "todos") = formList(<<ItemB>>)
    /\ Field(fvalues, "todos") = formList(<<ItemB>>)
    /\ Field(ferrors, "todos") = Prim("'taken'")
    /\ "todos" \notin DOMAIN errors

\* C12: whatever was called before it, reset() yields the state whose values
\* are the initial values given at construction and whose error store is
\* empty.
C12_ResetRestores ==
    last = "reset" => (values = initialValues /\ errors = EmptyObject)

\* C12 witness: reset was called through a form object that holds a changed
\* name, an added item and an error; the state is the initial one, with no
\* error
C12_Witness ==
    /\ last = "reset"
    /\ Field(fvalues, "name") = Prim("'a'")
    /\ Field(fvalues, "todos") = formList(<<ItemB>>)
    /\ ferrors # EmptyObject
    /\ values = [name |-> Prim("''"), todos |-> formList(<<>>)]
    /\ errors = EmptyObject

\* the rule of field reports an error for the values the form object holds
ProducesError(field) ==
    /\ field \in DOMAIN rules
    /\ IsError(FieldError(rules[field], Field(fvalues, field), fvalues))

\* C13: after validate() the error store is exactly the error mapping the
\* call returns: an error held before for a field that produces no
\* validation error (a field without a rule included) is gone; the returned
\* hasErrors is true iff some field produced an error; the values are
\* unchanged.
C13_ValidateReplaces ==
    [][last' = "validate" =>
       \A render \in Universe.renders :
          ValidateCall(render) =>
              /\ ret'.kind = "validation"
              /\ errors' = ret'.errors
              /\ DOMAIN errors' = {f \in DOMAIN rules : ProducesError(f)}
              /\ \A f \in DOMAIN errors :
                     ~ProducesError(f) => f \notin DOMAIN errors'
              /\ ret'.flag <=> (\E f \in DOMAIN rules : ProducesError(f))
              /\ values' = values]_vars

\* C13 witness: validate() on the form without rules, constructed with an
\* error on todos: it reported no errors and the error store is empty
C13_Witness ==
    /\ last = "validate"
    /\ rules = EmptyObject
    /\ values = initialValues
    /\ ret.flag = FALSE
    /\ errors = EmptyObject

\* C14: validateField(field) returns {valid, error} as the rule of the field
\* reports for the values the form object holds; when invalid the error of
\* the field is the rule's error, when valid the error store has no key
\* field; the error of every other field and the values are unchanged.
C14_ValidateFieldFrame ==
    [][last' = "validateField" =>
       \A field \in StaleUniverse.fields, render \in StaleUniverse.renders :
          ValidateFieldCall(field, render) =>
              /\ ret'.kind = "fieldValidation"
              /\ ret'.flag <=> ~ProducesError(field)
              /\ IF ret'.flag
                 THEN /\ field \notin DOMAIN errors'
                      /\ ~Truthy(ret'.error)
                 ELSE /\ field \in DOMAIN errors'
                      /\ errors'[field] = ret'.error
                      /\ ret'.error = FieldError(rules[field],
                                         Field(fvalues, field), fvalues)
              /\ Delete(errors', field) = Delete(errors, field)
              /\ values' = values]_vars

\* C14 witness: validateField("name") found the name empty and set its
\* error, next to the error of todos that was there before
C14_Witness ==
    /\ last = "validateField"
    /\ ret.flag = FALSE
    /\ Field(errors, "name") = Prim("'required'")
    /\ Field(errors, "todos") = Prim("'taken'")

\* C15: a field that holds a tagged list at construction holds a tagged list
\* after any sequence of setListItem, addListItem, removeListItem and
\* reorderListItem calls, with valid or invalid arguments (and a field that
\* holds none is not given one).
C15_TagPreserved ==
    \A field \in DOMAIN initialValues :
        /\ field \in DOMAIN values
        /\ isFormList(values[field]) <=> isFormList(initialValues[field])

\* C15 witness: after a list operation changed the list of todos (here a
\* reorder of the four items), todos still holds a tagged list
C15_Witness ==
    /\ last = "reorderListItem"
    /\ isFormList(Field(initialValues, "todos"))
    /\ isFormList(Field(values, "todos"))
    /\ Len(ListAt(values, "todos")) = 4
    /\ ListAt(values, "todos") # ListAt(initialValues, "todos")

\* C16: validate() called twice, with no call in between (so no change of
\* the values or the rules), returns equal {errors, hasErrors} results, and
\* the error store after the second call is the one after the first.
C16_ValidateIdempotent ==
    [][(last = "validate" /\ last' = "validate") =>
          /\ ret'.errors = ret.errors
          /\ ret'.flag = ret.flag
          /\ errors' = errors]_vars

\* C17: a list operation called right after another list operation takes
\* effect on the result of that one, also when both go through the same
\* form object: addListItem yields the list the state holds with the payload
\* appended (two addListItem calls leave the list two items longer),
\* removeListItem yields the list the state holds without the given indices.
C17_NoLostUpdate ==
    [][(last \in {"addListItem", "removeListItem"}
            /\ last' \in {"addListItem", "removeListItem"}) =>
       \A field \in StaleUniverse.fields, render \in StaleUniverse.renders :
          isFormList(Field(values, field)) =>
              /\ \A payload \in StaleUniverse.items :
                     AddListItemCall(field, payload, render) =>
                         ListAt(values', field) =
                             ListAt(values, field) \o <<payload>>
              /\ \A indices \in StaleUniverse.removals :
                     RemoveListItemCall(field, indices, render) =>
                         ListAt(values', field) =
                             FilterKept(ListAt(values, field), indices, 0)]_vars

\* the calls that change the values
Mutations == {"setFieldValue", "addListItem", "removeListItem"}

\* C18: a validate(), validateField(field) or submit called right after a
\* setFieldValue or a list operation evaluates the rules against the values
\* the state holds after that call, also when both calls go through the same
\* form object.
C18_ValidationReadsCurrent ==
    [][(last \in Mutations) =>
       \A render \in StaleUniverse.renders :
          /\ ValidateCall(render) =>
                 /\ ret'.errors = validateValues(rules, values).errors
                 /\ ret'.flag = validateValues(rules, values).hasErrors
          /\ \A field \in StaleUniverse.fields :
                 ValidateFieldCall(field, render) =>
                     /\ ret'.flag =
                            validateFieldValue(field, rules, values).valid
                     /\ ret'.error =
                            validateFieldValue(field, rules, values).error
          /\ SubmitCall(TRUE, render) =>
                 /\ effects'.validated = values
                 /\ effects'.results = validateValues(rules, values)]_vars

\* C19: whenever the submit handler calls handleSubmit, the values it passes
\* are the values the validation of that submit was run on, and the rules
\* report no error for them.
C19_CallbackGetsValidated ==
    (last = "onSubmit" /\ "handleSubmit" \in Range(effects.log)) =>
        /\ effects.cbValues = effects.validated
        /\ ~validateValues(rules, effects.cbValues).hasErrors

\* C19 witness: a submit through a form object older than the state called
\* handleSubmit with the values of that form object (a filled name), which
\* had been validated, while the state holds an empty name
C19_Witness ==
    /\ last = "onSubmit"
    /\ "handleSubmit" \in Range(effects.log)
    /\ Field(effects.cbValues, "name") = Prim("'a'")
    /\ Field(values, "name") = Prim("''")

\* the error key of field is removed, the other errors are unchanged
ClearsOnly(field) ==
    /\ field \notin DOMAIN errors'
    /\ Delete(errors', field) = Delete(errors, field)

\* C20: a list operation that changes a list field removes the error key of
\* that field, per-item errors included, and leaves the errors of the other
\* fields unchanged; so does a setListItem on an item that exists, also when
\* it stores an equal item.
C20_ListOpClearsFieldError ==
    [][last' \in {"setListItem", "addListItem", "removeListItem",
                  "reorderListItem"} =>
       \A field \in Universe.fields :
          /\ (~NoListAt(field) /\ Field(values', field) # Field(values, field))
                 => ClearsOnly(field)
          /\ (last' = "setListItem" /\ ~ClearsOnly(field)) =>
                 \A index \in Universe.indices :
                    ~NoItemAt(field, index) =>
                        \A value \in Universe.items,
                           render \in Universe.renders :
                           ~SetListItemCall(field, index, value, render)]_vars

\* C20 witness: removeListItem has left one item in todos in a form whose
\* name has the error of a validation: the error store has no key todos, and
\* the error of name is still there
C20_Witness ==
    /\ last = "removeListItem"
    /\ Len(ListAt(values, "todos")) = 1
    /\ "todos" \notin DOMAIN errors
    /\ Field(errors, "name") = Prim("'required'")

====
